---- MODULE Spec2Model ----
(***************************************************************************)
(* Plumbing Services & Estimator API (src/main.py, src/schemas.py).        *)
(*                                                                         *)
(* State: the "service" and "quote" collections of the document store,     *)
(* the store's id generator, whether the store handle db is set, and the   *)
(* outcome of the handler that ran last.                                   *)
(*                                                                         *)
(* Numbers.  Python floats are modelled in fixed point:                    *)
(*   area_sqm, quantity, rate, location_factor   in tenths                 *)
(*   overhead_pct                                in tenths                 *)
(*   tax_pct                                     in hundredths             *)
(*   unrounded amounts (cost, subtotal, ...)     in millionths of a dollar *)
(*   round(x, 2), the stored figures             in cents                  *)
(* With these scales every product the handler forms is exact.  The values *)
(* requests and services take are chosen so that no amount falls exactly   *)
(* on half a cent, where the binary value of the float, not the decimal    *)
(* one, decides which way round() goes.                                    *)
(***************************************************************************)
EXTENDS Integers, Sequences, FiniteSets, TLC

VARIABLES
    db,         \* TRUE: the store handle is set; FALSE: db is None
    service,    \* the "service" collection, in storage order
    quote,      \* the "quote" collection, in storage order
    nextId,     \* the store's next fresh ObjectId
    seedLog,    \* names inserted by startup seeding, in order (history)
    calls,      \* the successful estimate calls: request, catalog, response (history)
    last,       \* the handler that ran last: request, status, body, store calls
    pc,         \* concurrent seeding: each instance's position in seed_services
    idx         \* concurrent seeding: each instance's position in the for loop

vars == <<db, service, quote, nextId, seedLog, calls, last, pc, idx>>

----------------------------------------------------------------------------
(* Bounds *)

MaxCreated == 2      \* services added through POST /services
MaxQuotes == 2       \* estimate calls in one behaviour of Spec
MaxIds == 2          \* length of service_ids in a request
NumInstances == 2    \* service instances starting concurrently (SpecSeed)

----------------------------------------------------------------------------
(* Fixed point *)

Dollars(x) == x * 10

Abs(x) == IF x < 0 THEN -x ELSE x

\* n / d rounded to the nearest integer, ties to the even one: Python's round()
RoundHalfEven(n, d) ==
    LET a == Abs(n)
        q == a \div d
        r == a % d
        m == IF 2 * r > d \/ (2 * r = d /\ q % 2 = 1) THEN q + 1 ELSE q
    IN  IF n < 0 THEN -m ELSE m

\* round(x, 2) of an amount in millionths, in cents
Round2(x) == RoundHalfEven(x, 10000)

\* max(0.0, x)
Max0(x) == IF x > 0 THEN x ELSE 0

RECURSIVE SumSeq(_)
SumSeq(s) == IF s = <<>> THEN 0 ELSE Head(s) + SumSeq(Tail(s))

SeqsUpTo(S, n) == UNION {[1..k -> S] : k \in 0..n}

----------------------------------------------------------------------------
(* ObjectId and its string form.  An id string is a 24-digit lower-case    *)
(* hex string ("hex"), the same digits in upper case ("HEX"), or something *)
(* that is no ObjectId at all ("junk").                                    *)

Hex(n) == [text |-> "hex", oid |-> n]
HexUpper(n) == [text |-> "HEX", oid |-> n]
Junk == [text |-> "junk", oid |-> 0]

\* ObjectId.is_valid(s)
ObjectIdIsValid(s) == s.text \in {"hex", "HEX"}

\* ObjectId(s): parsing ignores the case of the digits
ObjectId(s) == s.oid

\* str(oid): always lower case
StrId(oid) == Hex(oid)

----------------------------------------------------------------------------
(* The seeded catalog *)

defaults == <<
    [name |-> "Leak Repair", description |-> "Fix minor to major leaks",
     unit |-> "flat", rate |-> Dollars(120), category |-> "Repair"],
    [name |-> "Pipe Installation", description |-> "Install new copper/PVC pipes",
     unit |-> "sqm", rate |-> Dollars(35), category |-> "Installation"],
    [name |-> "Fixture Installation", description |-> "Sinks, toilets, showers, faucets",
     unit |-> "fixture", rate |-> Dollars(85), category |-> "Installation"],
    [name |-> "Drain Cleaning", description |-> "Clear clogged drains",
     unit |-> "flat", rate |-> Dollars(95), category |-> "Maintenance"],
    [name |-> "Water Heater Setup", description |-> "Install standard water heater",
     unit |-> "flat", rate |-> Dollars(650), category |-> "Installation"] >>

\* the document insert_one stores: the fields plus a fresh _id
WithId(d, id) ==
    [_id |-> id, name |-> d.name, description |-> d.description,
     unit |-> d.unit, rate |-> d.rate, category |-> d.category]

\* the documents inserting defaults[1..k] adds, with ids from id0 on
SeedDocs(k, id0) == [i \in 1..k |-> WithId(defaults[i], id0 + i - 1)]

SeedNames(k) == [i \in 1..k |-> defaults[i].name]

----------------------------------------------------------------------------
(* Schemas *)

Units == {"sqm", "fixture", "flat"}

\* Service: unit is one of the three literals, rate >= 0
ServiceValid(s) == s.unit \in Units /\ s.rate >= 0

\* QuoteItem: unit is one of the three literals
QuoteItemValid(it) == it.unit \in Units

\* Quote: area_sqm >= 0, fixtures >= 0, 0.5 <= location_factor <= 2.0
QuoteValid(q) ==
    /\ q.area_sqm >= 0
    /\ q.fixtures >= 0
    /\ q.location_factor >= 5
    /\ q.location_factor <= 20
    /\ \A i \in 1..Len(q.items) : QuoteItemValid(q.items[i])

\* QuoteRequest declares types and defaults only: no field is constrained
QuoteRequestValid(req) == TRUE

----------------------------------------------------------------------------
(* The document store *)

\* db[c].find({"_id": {"$in": ids}}): the matching documents, each once,
\* in storage order
Find(coll, ids) == SelectSeq(coll, LAMBDA d : d._id \in ids)

\* db[c].insert_one(doc)
InsertOne(coll, doc) == Append(coll, doc)

\* create_document(collection, data) raises when there is no store handle
\* or when the insert fails; otherwise it inserts model_dump() of the data
\* under a fresh id and returns str(id)
CreateDocumentRaises(fail) == ~db \/ fail = "insert"

----------------------------------------------------------------------------
(* estimate: the computation *)

Range(s) == {s[i] : i \in 1..Len(s)}

\* ids = [ObjectId(s) for s in req.service_ids if ObjectId.is_valid(s)]
ParsedIds(req) == {ObjectId(s) : s \in {t \in Range(req.service_ids) : ObjectIdIsValid(t)}}

\* the find is issued only if db and req.service_ids and ids
FindIssued(req) == db /\ req.service_ids # <<>> /\ ParsedIds(req) # {}

RECURSIVE ConcatAll(_)
ConcatAll(ss) == IF ss = <<>> THEN <<>> ELSE Head(ss) \o ConcatAll(Tail(ss))

\* variant: one lookup per id, in the order of the request
SelectedPerId(req) ==
    IF FindIssued(req)
    THEN LET ok == SelectSeq(req.service_ids, ObjectIdIsValid)
         IN  ConcatAll([i \in 1..Len(ok) |-> Find(service, {ObjectId(ok[i])})])
    ELSE <<>>

\* variant: with no id to look up, the filter is dropped
SelectedAllWhenNoIds(req) ==
    IF FindIssued(req) THEN Find(service, ParsedIds(req))
    ELSE IF db THEN service ELSE <<>>

\* sel = []; sel = list(find(...)) when the find is issued
Selected(req) == IF FindIssued(req) THEN Find(service, ParsedIds(req)) ELSE <<>>

\* variant: fixture services priced by area
QuantityAreaOnly(unit, req) == IF unit = "flat" THEN 10 ELSE Max0(req.area_sqm)

\* qty = 1.0; sqm -> max(0.0, area_sqm); fixture -> max(0.0, float(fixtures))
Quantity(unit, req) ==
    IF unit = "sqm" THEN Max0(req.area_sqm)
    ELSE IF unit = "fixture" THEN Max0(req.fixtures * 10)
    ELSE 10

\* cost = qty * rate * req.location_factor, in millionths
Cost(s, req) == Quantity(s.unit, req) * s.rate * req.location_factor * 1000

Costs(sel, req) == [i \in 1..Len(sel) |-> Cost(sel[i], req)]

QuoteItem(s, req) ==
    [service_id |-> StrId(s._id), service_name |-> s.name, unit |-> s.unit,
     quantity |-> Quantity(s.unit, req), rate |-> s.rate,
     cost |-> Round2(Cost(s, req))]

Items(sel, req) == [i \in 1..Len(sel) |-> QuoteItem(sel[i], req)]

\* variant: the accumulator is not reset between calls
SubtotalCarried(sel, req) == SumSeq(Costs(sel, req)) + Len(quote) * 1000000

\* variant: the rounded costs are accumulated
SubtotalOfRounded(sel, req) ==
    SumSeq([i \in 1..Len(sel) |-> Round2(Cost(sel[i], req)) * 10000])

\* subtotal = 0.0; subtotal += cost for each selected service
Subtotal(sel, req) == SumSeq(Costs(sel, req))

\* variant: overhead taken of the rounded subtotal
OverheadOfRounded(subtotal, req) == (Round2(subtotal) * 1000) * req.overhead_pct

\* overhead = subtotal * req.overhead_pct
Overhead(subtotal, req) == (subtotal \div 10) * req.overhead_pct

\* tax = (subtotal + overhead) * req.tax_pct
Tax(subtotal, overhead, req) == ((subtotal + overhead) \div 100) * req.tax_pct

\* total = subtotal + overhead + tax
Total(subtotal, overhead, tax) == subtotal + overhead + tax

\* Quote(...): the figures are rounded as the record is built
BuildQuote(req, sel) ==
    LET subtotal == Subtotal(sel, req)
        overhead == Overhead(subtotal, req)
        tax == Tax(subtotal, overhead, req)
        total == Total(subtotal, overhead, tax)
    IN  [project_name |-> req.project_name,
         area_sqm |-> req.area_sqm,
         fixtures |-> req.fixtures,
         selected_service_ids |-> req.service_ids,
         location_factor |-> req.location_factor,
         items |-> Items(sel, req),
         subtotal |-> Round2(subtotal),
         overhead |-> Round2(overhead),
         tax |-> Round2(tax),
         total |-> Round2(total)]

\* variant: the quote is stored before its figures are set
QuoteDocWithoutTotals(q, id) ==
    [_id |-> id, project_name |-> q.project_name, area_sqm |-> q.area_sqm,
     fixtures |-> q.fixtures, selected_service_ids |-> q.selected_service_ids,
     location_factor |-> q.location_factor, items |-> q.items,
     subtotal |-> 0, overhead |-> 0, tax |-> 0, total |-> 0]

\* the document create_document("quote", quote) stores
QuoteDoc(q, id) ==
    [_id |-> id, project_name |-> q.project_name, area_sqm |-> q.area_sqm,
     fixtures |-> q.fixtures, selected_service_ids |-> q.selected_service_ids,
     location_factor |-> q.location_factor, items |-> q.items,
     subtotal |-> q.subtotal, overhead |-> q.overhead, tax |-> q.tax,
     total |-> q.total]

\* the response {"id": qid, **quote.model_dump()}
QuoteResponse(q, id) ==
    [id |-> StrId(id), project_name |-> q.project_name, area_sqm |-> q.area_sqm,
     fixtures |-> q.fixtures, selected_service_ids |-> q.selected_service_ids,
     location_factor |-> q.location_factor, items |-> q.items,
     subtotal |-> q.subtotal, overhead |-> q.overhead, tax |-> q.tax,
     total |-> q.total]

----------------------------------------------------------------------------
(* Requests *)

Request(area, fix, ids, lf, op, tp) ==
    [project_name |-> "P", area_sqm |-> area, fixtures |-> fix,
     service_ids |-> ids, location_factor |-> lf,
     overhead_pct |-> op, tax_pct |-> tp]

\* a request breaks a constraint the Quote schema states
Malformed(req) ==
    \/ req.area_sqm < 0
    \/ req.fixtures < 0
    \/ req.location_factor < 5
    \/ req.location_factor > 20

\* id strings a client sends: seeded and created services, an upper-case
\* spelling, a string that is no ObjectId, a well-formed id of no record
IdTokens == {HexUpper(1), Hex(2), Hex(3), Hex(6), Hex(7), Junk, Hex(99)}

\* every list of ids, with a few field values
IdMixRequests ==
    {Request(a, 2, ids, 11, 1, 8) :
        a \in {2, 40}, ids \in SeqsUpTo(IdTokens, MaxIds)}

\* every combination of field values, with a few lists of ids
FieldMixRequests ==
    {Request(a, f, ids, lf, op, tp) :
        a \in {0, 2, 40}, f \in {0, 2},
        ids \in {<<>>, <<Hex(2), Hex(3)>>, <<Hex(6), Hex(7)>>, <<HexUpper(1), Hex(6)>>},
        lf \in {5, 11}, op \in {-1, 0, 1, 3}, tp \in {0, 8}}

WellFormedRequests == IdMixRequests \cup FieldMixRequests

MalformedRequests ==
    {r \in {Request(a, f, ids, lf, 1, 8) :
                a \in {-10, 0}, f \in {-1, 0}, lf \in {4, 10, 21},
                ids \in {<<>>, <<Hex(2)>>, <<Junk>>}} : Malformed(r)}

Requests == WellFormedRequests \cup MalformedRequests

\* the requests of the long-running specification: the defaults of
\* QuoteRequest, the documented example, one with a created service,
\* one malformed
SomeRequests ==
    {Request(0, 0, <<>>, 10, 1, 8),
     Request(100, 2, <<Hex(2), Hex(3)>>, 10, 1, 8),
     Request(2, 0, <<Hex(6), Hex(7)>>, 11, 3, 8),
     Request(100, 2, <<Hex(2)>>, 4, 1, 8)}

\* bodies sent to POST /services: one the Service schema accepts, one it
\* refuses (unit, rate)
ServiceInputs ==
    {[name |-> "Patch", description |-> "", unit |-> "sqm", rate |-> 3, category |-> ""],
     [name |-> "Visit", description |-> "", unit |-> "hour", rate |-> -5, category |-> ""]}

----------------------------------------------------------------------------
(* Handlers *)

\* detail: the message of the error response, or of the exception startup
\* swallows ("" when there is none)
Outcome(op, req, status, detail, body, ops) ==
    [op |-> op, req |-> req, status |-> status, detail |-> detail,
     body |-> body, ops |-> ops]

NumCreated == Len(service) - Len(seedLog)

TypeOK ==
    /\ db \in BOOLEAN
    /\ nextId \in Nat
    /\ Len(seedLog) <= Len(service)
    /\ Len(calls) = Len(quote)

Init ==
    /\ db \in BOOLEAN
    /\ service = <<>>
    /\ quote = <<>>
    /\ nextId = 1
    /\ seedLog = <<>>
    /\ calls = <<>>
    /\ last = Outcome("none", <<>>, 0, "", <<>>, <<>>)
    /\ pc = [i \in 1..NumInstances |-> "boot"]
    /\ idx = [i \in 1..NumInstances |-> 1]

\* variant: the count is not consulted
CatalogEmptyAlways == TRUE

\* count = db["service"].count_documents({}); if count == 0
CatalogEmpty == Len(service) = 0

\* startup of a single instance: it completes before any request is served.
\* k is the number of inserts that succeed before one raises (all of them
\* when none does); the exception is swallowed.
SeedServices(fail, k) ==
    /\ UNCHANGED <<db, quote, calls, pc, idx>>
    /\ IF ~db
       THEN /\ UNCHANGED <<service, nextId, seedLog>>
            /\ last' = Outcome("startup", <<>>, 0, "no db", <<>>, <<>>)
       ELSE IF fail = "count"
       THEN /\ UNCHANGED <<service, nextId, seedLog>>
            /\ last' = Outcome("startup", <<>>, 0, "store", <<>>, <<"count">>)
       ELSE IF ~CatalogEmpty
       THEN /\ UNCHANGED <<service, nextId, seedLog>>
            /\ last' = Outcome("startup", <<>>, 0, "", <<>>, <<"count">>)
       ELSE /\ service' = service \o SeedDocs(k, nextId)
            /\ nextId' = nextId + k
            /\ seedLog' = seedLog \o SeedNames(k)
            /\ last' = Outcome("startup", <<>>, 0,
                               IF k < Len(defaults) THEN "store" ELSE "", <<>>,
                               <<"count">> \o [i \in 1..k |-> "insert"]
                                  \o (IF k < Len(defaults) THEN <<"insert">> ELSE <<>>))

seed_services ==
    \E fail \in {"none", "count", "insert"} :
        \E k \in 0..Len(defaults) :
            /\ (fail = "insert") = (k < Len(defaults))
            /\ SeedServices(fail, k)

\* POST /services.  The body is validated against Service before the
\* handler runs.
CreateService(s, fail) ==
    /\ UNCHANGED <<db, quote, seedLog, calls, pc, idx>>
    /\ IF ~ServiceValid(s)
       THEN /\ UNCHANGED <<service, nextId>>
            /\ last' = Outcome("create_service", <<s>>, 422, "validation", <<>>, <<>>)
       ELSE IF CreateDocumentRaises(fail)
       THEN /\ UNCHANGED <<service, nextId>>
            /\ last' = Outcome("create_service", <<s>>, 500,
                               IF db THEN "store" ELSE "no db", <<>>,
                               IF db THEN <<"insert">> ELSE <<>>)
       ELSE /\ service' = InsertOne(service, WithId(s, nextId))
            /\ nextId' = nextId + 1
            /\ last' = Outcome("create_service", <<s>>, 200, "",
                               <<[id |-> StrId(nextId)]>>, <<"insert">>)

create_service ==
    /\ NumCreated < MaxCreated
    /\ \E s \in ServiceInputs, fail \in {"none", "insert"} : CreateService(s, fail)

\* POST /estimate.  Every exception, a failed validation of the Quote
\* included, is caught and answered with status 500.
Estimate(req, fail) ==
    LET found == IF FindIssued(req) THEN <<"find">> ELSE <<>>
        q == BuildQuote(req, Selected(req))
    IN  /\ UNCHANGED <<db, service, seedLog, pc, idx>>
        /\ IF ~QuoteRequestValid(req)
           THEN /\ UNCHANGED <<quote, nextId, calls>>
                /\ last' = Outcome("estimate", <<req>>, 422, "validation", <<>>, <<>>)
           ELSE IF FindIssued(req) /\ fail = "find"
           THEN /\ UNCHANGED <<quote, nextId, calls>>
                /\ last' = Outcome("estimate", <<req>>, 500, "store", <<>>, found)
           ELSE IF ~QuoteValid(q)
           THEN /\ UNCHANGED <<quote, nextId, calls>>
                /\ last' = Outcome("estimate", <<req>>, 500, "validation", <<>>, found)
           ELSE IF CreateDocumentRaises(fail)
           THEN /\ UNCHANGED <<quote, nextId, calls>>
                /\ last' = Outcome("estimate", <<req>>, 500,
                                   IF db THEN "store" ELSE "no db", <<>>,
                                   found \o (IF db THEN <<"insert">> ELSE <<>>))
           ELSE /\ quote' = InsertOne(quote, QuoteDoc(q, nextId))
                /\ nextId' = nextId + 1
                /\ calls' = Append(calls, [req |-> req, catalog |-> service,
                                           response |-> QuoteResponse(q, nextId)])
                /\ last' = Outcome("estimate", <<req>>, 200, "",
                                   <<QuoteResponse(q, nextId)>>, found \o <<"insert">>)

estimate ==
    /\ Len(quote) < MaxQuotes
    /\ \E req \in SomeRequests, fail \in {"none", "find", "insert"} : Estimate(req, fail)

Next == seed_services \/ create_service \/ estimate

Spec == Init /\ [][Next]_vars

----------------------------------------------------------------------------
(* One estimate call on any catalog startup and POST /services can build *)

NotEstimated == last.op # "estimate"

seed_services_first == NotEstimated /\ seed_services

create_service_first == NotEstimated /\ create_service

estimate_once ==
    /\ NotEstimated
    /\ \E req \in Requests, fail \in {"none", "find", "insert"} : Estimate(req, fail)

NextEst == seed_services_first \/ create_service_first \/ estimate_once

SpecEst == Init /\ [][NextEst]_vars

----------------------------------------------------------------------------
(* Two instances start against the same store: the steps of seed_services  *)
(* (the count, then one insert per loop iteration) interleave.             *)

\* lines 34-37: the guard and the count
SeedCount(i, fail) ==
    /\ pc[i] = "boot"
    /\ UNCHANGED <<db, service, quote, nextId, seedLog, calls, last, idx>>
    /\ IF ~db THEN pc' = [pc EXCEPT ![i] = "done"]
       ELSE IF fail = "count" THEN pc' = [pc EXCEPT ![i] = "raised"]
       ELSE IF CatalogEmpty THEN pc' = [pc EXCEPT ![i] = "insert"]
       ELSE pc' = [pc EXCEPT ![i] = "done"]

\* lines 45-46: one iteration of the loop
SeedInsert(i, fail) ==
    /\ pc[i] = "insert"
    /\ UNCHANGED <<db, quote, calls, last>>
    /\ IF fail = "insert"
       THEN /\ pc' = [pc EXCEPT ![i] = "raised"]
            /\ UNCHANGED <<service, nextId, seedLog, idx>>
       ELSE /\ service' = InsertOne(service, WithId(defaults[idx[i]], nextId))
            /\ nextId' = nextId + 1
            /\ seedLog' = Append(seedLog, defaults[idx[i]].name)
            /\ idx' = [idx EXCEPT ![i] = idx[i] + 1]
            /\ pc' = [pc EXCEPT ![i] =
                         IF idx[i] = Len(defaults) THEN "done" ELSE "insert"]

seed_count == \E i \in 1..NumInstances, fail \in {"none", "count"} : SeedCount(i, fail)

seed_insert == \E i \in 1..NumInstances, fail \in {"none", "insert"} : SeedInsert(i, fail)

NextSeed == seed_count \/ seed_insert

SpecSeed == Init /\ [][NextSeed]_vars

----------------------------------------------------------------------------
(* Properties *)

EstimateOK == last.op = "estimate" /\ last.status = 200

\* c cents is x millionths rounded to the nearest cent
IsRound2(x, c) == 2 * Abs(x - c * 10000) <= 10000

OffHalfCent(x) == Abs(x) % 10000 # 5000

\* the unrounded cost of an item, from the fields the item shows
ItemProduct(it, req) == it.quantity * it.rate * req.location_factor * 1000

UnroundedSum(q, req) ==
    SumSeq([i \in 1..Len(q.items) |-> ItemProduct(q.items[i], req)])

\* sanity: no amount of a returned quote falls exactly on half a cent
NoHalfCents ==
    EstimateOK =>
        LET q == last.body[1]
            req == last.req[1]
            S == UnroundedSum(q, req)
            O == (S \div 10) * req.overhead_pct
            T == ((S + O) \div 100) * req.tax_pct
        IN  /\ \A i \in 1..Len(q.items) : OffHalfCent(ItemProduct(q.items[i], req))
            /\ OffHalfCent(S) /\ OffHalfCent(O) /\ OffHalfCent(T)
            /\ OffHalfCent(S + O + T)

SumOfCosts(q) == SumSeq([i \in 1..Len(q.items) |-> q.items[i].cost])

Names(coll) == [i \in 1..Len(coll) |-> coll[i].name]

NoDuplicates(s) == \A i, j \in 1..Len(s) : s[i] = s[j] => i = j

\* C1 (as stated): in every quote estimate returns, overhead, tax and total
\* follow from the stored, already rounded figures:
\* overhead = round(subtotal * overhead_pct, 2),
\* tax = round((subtotal + overhead) * tax_pct, 2),
\* total = round(subtotal + overhead + tax, 2).
C1_StoredFiguresConsistent ==
    EstimateOK =>
        LET q == last.body[1]
            req == last.req[1]
        IN  /\ q.overhead = RoundHalfEven(q.subtotal * req.overhead_pct, 10)
            /\ q.tax = RoundHalfEven((q.subtotal + q.overhead) * req.tax_pct, 100)
            /\ q.total = q.subtotal + q.overhead + q.tax

\* C1 (amended): in every quote estimate returns, overhead, tax and total
\* are the roundings of the unrounded amounts: with S the unrounded sum of
\* quantity * rate * location_factor over the items, O = S * overhead_pct
\* and T = (S + O) * tax_pct, overhead = round(O, 2), tax = round(T, 2) and
\* total = round(S + O + T, 2).
C1_FiguresRoundUnrounded ==
    EstimateOK =>
        LET q == last.body[1]
            req == last.req[1]
            S == UnroundedSum(q, req)
            O == (S \div 10) * req.overhead_pct
            T == ((S + O) \div 100) * req.tax_pct
        IN  /\ IsRound2(O, q.overhead)
            /\ IsRound2(T, q.tax)
            /\ IsRound2(S + O + T, q.total)

\* a quote whose unrounded subtotal has a fraction of a cent, with overhead and tax
C1_Witness ==
    /\ EstimateOK
    /\ UnroundedSum(last.body[1], last.req[1]) % 10000 # 0
    /\ last.req[1].overhead_pct > 0
    /\ last.req[1].tax_pct > 0
    /\ last.body[1].tax > 0

\* C2 (as stated): the stored subtotal is the sum of the items' cost fields.
C2_SubtotalIsSumOfCosts ==
    EstimateOK => last.body[1].subtotal = SumOfCosts(last.body[1])

\* C2 (amended): the stored subtotal is the unrounded sum of
\* quantity * rate * location_factor over the items, rounded once; it is the
\* sum of the cost fields when no item's cost has a fraction of a cent.
C2_SubtotalRoundsUnroundedSum ==
    EstimateOK =>
        LET q == last.body[1]
            req == last.req[1]
        IN  /\ IsRound2(UnroundedSum(q, req), q.subtotal)
            /\ (\A i \in 1..Len(q.items) : ItemProduct(q.items[i], req) % 10000 = 0)
                   => q.subtotal = SumOfCosts(q)

\* a quote of two items whose costs each have a fraction of a cent
C2_Witness ==
    /\ EstimateOK
    /\ Len(last.body[1].items) = 2
    /\ \A i \in 1..2 : ItemProduct(last.body[1].items[i], last.req[1]) % 10000 # 0

\* C3: every item of a returned quote has the quantity its unit gives
\* (sqm: max(0, area_sqm); fixture: max(0, fixtures); flat: 1), the rate of
\* its catalog record, and cost = round(quantity * rate * location_factor, 2).
C3_ItemsFollowUnitDispatch ==
    EstimateOK =>
        LET q == last.body[1]
            req == last.req[1]
        IN  \A i \in 1..Len(q.items) :
                LET it == q.items[i]
                IN  /\ \E n \in 1..Len(service) :
                           /\ StrId(service[n]._id) = it.service_id
                           /\ service[n].rate = it.rate
                           /\ service[n].unit = it.unit
                    /\ it.unit = "sqm" => it.quantity = Max0(req.area_sqm)
                    /\ it.unit = "fixture" => it.quantity = Max0(req.fixtures * 10)
                    /\ it.unit = "flat" => it.quantity = 10
                    /\ it.unit \in Units
                    /\ IsRound2(ItemProduct(it, req), it.cost)

\* a quote with an item priced by area and one priced by fixture
C3_Witness ==
    /\ EstimateOK
    /\ \E i, j \in 1..Len(last.body[1].items) :
           /\ last.body[1].items[i].unit = "sqm"
           /\ last.body[1].items[j].unit = "fixture"
           /\ last.body[1].items[i].quantity > 0
           /\ last.body[1].items[j].quantity > last.body[1].items[i].quantity

\* the catalog records a request's service_ids name, in storage order
Named(req) ==
    SelectSeq(service, LAMBDA d :
        \E i \in 1..Len(req.service_ids) :
            /\ ObjectIdIsValid(req.service_ids[i])
            /\ ObjectId(req.service_ids[i]) = d._id)

\* C4: whatever service_ids holds, an estimate call whose other fields are
\* well formed and whose store calls succeed returns a quote, and its items
\* are the catalog records the ids name: one item each, in storage order,
\* and no other item.
C4_IdsNeverFailTheCall ==
    (/\ last.op = "estimate"
     /\ ~Malformed(last.req[1])
     /\ last.detail \notin {"store", "no db"}) =>
        /\ last.status = 200
        /\ LET items == last.body[1].items
               want == Named(last.req[1])
           IN  /\ Len(items) = Len(want)
               /\ \A i \in 1..Len(items) : items[i].service_id = StrId(want[i]._id)

\* a quote for a list of two ids, one that is no ObjectId and one that
\* names a catalog record
C4_Witness ==
    /\ EstimateOK
    /\ Len(last.req[1].service_ids) = 2
    /\ Len(last.body[1].items) = 1
    /\ \E i \in 1..2 : ~ObjectIdIsValid(last.req[1].service_ids[i])

\* C5: an estimate request with location_factor outside [0.5, 2.0], negative
\* area_sqm or negative fixtures is answered with a client error, and no
\* store call was made for it.
C5_MalformedRejectedAsClientError ==
    (last.op = "estimate" /\ Malformed(last.req[1])) =>
        /\ last.status >= 400
        /\ last.status < 500
        /\ last.ops = <<>>

\* C6: a successful estimate call appends exactly one quote, the one it
\* returns, complete; a failed call and every other handler leave the quote
\* store as it is; no step changes or removes a stored quote or a catalog
\* record.
C6_OneQuotePerSuccessfulCall ==
    [][/\ Len(service') >= Len(service)
       /\ SubSeq(service', 1, Len(service)) = service
       /\ Len(quote') >= Len(quote)
       /\ SubSeq(quote', 1, Len(quote)) = quote
       /\ last'.op # "estimate" => quote' = quote
       /\ (last'.op = "estimate" /\ last' # last) =>
              /\ service' = service
              /\ IF last'.status = 200
                 THEN /\ Len(quote') = Len(quote) + 1
                      /\ LET d == quote'[Len(quote')]
                             r == last'.body[1]
                         IN  /\ StrId(d._id) = r.id
                             /\ d.items = r.items
                             /\ d.subtotal = r.subtotal
                             /\ d.overhead = r.overhead
                             /\ d.tax = r.tax
                             /\ d.total = r.total
                             /\ d.selected_service_ids = r.selected_service_ids
                 ELSE quote' = quote]_vars

\* a failed call after a successful one: the store holds the one quote
C6_Witness ==
    /\ Len(quote) = 1
    /\ quote[1].total > 0
    /\ last.op = "estimate"
    /\ last.status = 500

StartupStep == last' # last /\ last'.op = "startup"

SameFigures(a, b) ==
    /\ a.items = b.items
    /\ a.subtotal = b.subtotal
    /\ a.overhead = b.overhead
    /\ a.tax = b.tax
    /\ a.total = b.total

\* C8: two successful estimate calls with the same request against the same
\* catalog return the same items, subtotal, overhead, tax and total, under
\* different ids.
C8_SameInputSameQuote ==
    \A i, j \in 1..Len(calls) :
        (i < j /\ calls[i].req = calls[j].req /\ calls[i].catalog = calls[j].catalog) =>
            /\ SameFigures(calls[i].response, calls[j].response)
            /\ calls[i].response.id # calls[j].response.id

\* two calls with the same request on the same catalog, with items
C8_Witness ==
    \E i, j \in 1..Len(calls) :
        /\ i < j
        /\ calls[i].req = calls[j].req
        /\ calls[i].catalog = calls[j].catalog
        /\ calls[j].response.total > 0

\* C9: a returned quote for a request with no service_ids has no items and
\* subtotal = overhead = tax = total = 0.
C9_EmptySelectionIsZero ==
    (EstimateOK /\ last.req[1].service_ids = <<>>) =>
        /\ last.body[1].items = <<>>
        /\ last.body[1].subtotal = 0
        /\ last.body[1].overhead = 0
        /\ last.body[1].tax = 0
        /\ last.body[1].total = 0

\* a quote for no ids on a non-empty catalog, with area, fixtures and rates set
C9_Witness ==
    /\ EstimateOK
    /\ last.req[1].service_ids = <<>>
    /\ service # <<>>
    /\ last.req[1].area_sqm > 0
    /\ last.req[1].fixtures > 0
    /\ last.req[1].overhead_pct > 0
    /\ last.req[1].tax_pct > 0

\* C10: when every instance has finished seeding without an exception, the
\* catalog holds exactly the five defaults, each once.
C10_ConcurrentSeedingSeedsOnce ==
    (db /\ \A i \in 1..NumInstances : pc[i] = "done") =>
        Names(service) = SeedNames(Len(defaults))

====
